---- MODULE Spec2Model ----
(***************************************************************************)
(* binput: BinaryReader, MemoryWriter and BinaryWriter of src/binput.py.   *)
(*                                                                         *)
(* A Python int is modelled as sign and magnitude, the magnitude a         *)
(* sequence of base-256 digits, least significant first, without leading   *)
(* zero digits (64-bit values do not fit the integers of the model         *)
(* checker).  A byte string is a sequence over 0..255, a str a sequence of *)
(* code points.  Offsets, lengths and alignments are plain integers.       *)
(***************************************************************************)
EXTENDS Integers, Sequences, FiniteSets, TLC

\* ------------------------------------------------------------------ bounds
\* Largest offset handed to seek, and the cap on skip and align targets.
MaxPos == 4
\* Calls made on a writer in one run.
MaxCalls == 2
\* Largest count handed to read(n) and read_*_str(length).
MaxRead == 3

\* ----------------------------------------------------------------- helpers
Min2(a, b) == IF a < b THEN a ELSE b
Max2(a, b) == IF a > b THEN a ELSE b

Reverse(s) == [i \in 1..Len(s) |-> s[Len(s) + 1 - i]]
Zeros(n) == [i \in 1..n |-> 0]
Ones(n) == [i \in 1..n |-> 255]

\* The digits of s without its most significant zero digits.
RECURSIVE Strip(_)
Strip(s) ==
  IF s = <<>> THEN <<>>
  ELSE IF s[Len(s)] = 0 THEN Strip(SubSeq(s, 1, Len(s) - 1))
  ELSE s

PyInt(neg, mag) == [neg |-> neg, mag |-> mag]

RECURSIVE Digits(_)
Digits(n) == IF n = 0 THEN <<>> ELSE <<n % 256>> \o Digits(n \div 256)

\* The Python int of a small integer of the model.
FromInt(i) == IF i < 0 THEN PyInt(TRUE, Digits(-i)) ELSE PyInt(FALSE, Digits(i))

RECURSIVE MagValue(_)
MagValue(s) == IF s = <<>> THEN 0 ELSE s[1] + 256 * MagValue(Tail(s))

\* The integer of a Python int of at most three digits.
ToInt(x) == IF x.neg THEN -MagValue(x.mag) ELSE MagValue(x.mag)

\* ------------------------------------------------------------ BinaryEndian
LITTLE == "<"
BIG == ">"
BinaryEndian == {LITTLE, BIG}

\* ----------------------------------------------------- struct pack / unpack
\* The struct type characters the typed accessors pass to pack and unpack.
Types == {"B", "b", "H", "h", "I", "i", "Q", "q"}

Signed(T) == T \in {"b", "h", "i", "q"}

\* struct.calcsize of "<T" and ">T" (standard sizes).
StructSize(T) ==
  CASE T \in {"B", "b"} -> 1
    [] T \in {"H", "h"} -> 2
    [] T \in {"I", "i"} -> 4
    [] T \in {"Q", "q"} -> 8

\* The size argument each read_<type> passes to unpack.
ReadSize(T) ==
  CASE T = "B" -> 1 [] T = "b" -> 1
    [] T = "H" -> 2 [] T = "h" -> 2
    [] T = "I" -> 4 [] T = "i" -> 4
    [] T = "Q" -> 8 [] T = "q" -> 8

ReadName(T) ==
  CASE T = "B" -> "read_u8" [] T = "b" -> "read_i8"
    [] T = "H" -> "read_u16" [] T = "h" -> "read_i16"
    [] T = "I" -> "read_u32" [] T = "i" -> "read_i32"
    [] T = "Q" -> "read_u64" [] T = "q" -> "read_i64"

WriteName(T) ==
  CASE T = "B" -> "write_u8" [] T = "b" -> "write_i8"
    [] T = "H" -> "write_u16" [] T = "h" -> "write_i16"
    [] T = "I" -> "write_u32" [] T = "i" -> "write_i32"
    [] T = "Q" -> "write_u64" [] T = "q" -> "write_i64"

\* Whether struct accepts x for type T.
InRange(T, x) ==
  LET w == StructSize(T)
      n == Len(x.mag)
  IN IF ~Signed(T) THEN ~x.neg /\ n <= w
     ELSE IF ~x.neg THEN n < w \/ (n = w /\ x.mag[w] < 128)
     ELSE \/ n < w
          \/ /\ n = w
             /\ \/ x.mag[w] < 128
                \/ x.mag[w] = 128 /\ \A j \in 1..(w - 1) : x.mag[j] = 0

Invert(s) == [i \in 1..Len(s) |-> 255 - s[i]]

\* s + 1 modulo 256^Len(s), the carry running from the least significant byte.
Increment(s) ==
  [i \in 1..Len(s) |->
     IF \A j \in 1..(i - 1) : s[j] = 255 THEN (s[i] + 1) % 256 ELSE s[i]]

\* The w bytes of x, least significant first, negative values in two's complement.
LittleBytes(x, w) ==
  LET padded == x.mag \o Zeros(w - Len(x.mag))
  IN IF x.neg THEN Increment(Invert(padded)) ELSE padded

\* struct.pack(f"{endian}{type}", number): the bytes, or struct.error.
pk_wrongorder(endian, T, number) ==
  IF ~InRange(T, number) THEN [err |-> "struct.error", bytes |-> <<>>]
  ELSE [err |-> "none",
        bytes |-> IF endian = BIG THEN LittleBytes(number, StructSize(T))
                  ELSE Reverse(LittleBytes(number, StructSize(T)))]

pk(endian, T, number) ==
  IF ~InRange(T, number) THEN [err |-> "struct.error", bytes |-> <<>>]
  ELSE [err |-> "none",
        bytes |-> IF endian = LITTLE THEN LittleBytes(number, StructSize(T))
                  ELSE Reverse(LittleBytes(number, StructSize(T)))]

\* struct.unpack(f"{endian}{type}", data)[0]: the int, or struct.error when
\* data is not exactly calcsize bytes long.
up(endian, T, data) ==
  IF Len(data) # StructSize(T) THEN [err |-> "struct.error", val |-> "None"]
  ELSE LET le == IF endian = LITTLE THEN data ELSE Reverse(data)
       IN [err |-> "none",
           val |-> IF Signed(T) /\ le[Len(le)] >= 128
                   THEN PyInt(TRUE, Strip(Increment(Invert(le))))
                   ELSE PyInt(FALSE, Strip(le))]

\* ------------------------------------------------------------ str encodings
\* str.encode("utf-8") of one code point (surrogates are not encodable).
Utf8Char(c) ==
  IF c < 128 THEN <<c>>
  ELSE IF c < 2048 THEN <<192 + (c \div 64), 128 + (c % 64)>>
  ELSE IF c < 65536
       THEN <<224 + (c \div 4096), 128 + ((c \div 64) % 64), 128 + (c % 64)>>
  ELSE <<240 + (c \div 262144), 128 + ((c \div 4096) % 64),
         128 + ((c \div 64) % 64), 128 + (c % 64)>>

RECURSIVE Utf8Bytes(_)
Utf8Bytes(s) == IF s = <<>> THEN <<>> ELSE Utf8Char(Head(s)) \o Utf8Bytes(Tail(s))

\* string.encode(codec): the bytes, or UnicodeEncodeError.
encode(string, codec) ==
  IF codec = "ASCII"
  THEN IF \E i \in 1..Len(string) : string[i] >= 128
       THEN [err |-> "UnicodeEncodeError", bytes |-> <<>>]
       ELSE [err |-> "none", bytes |-> string]
  ELSE IF \E i \in 1..Len(string) : string[i] \in 55296..57343
       THEN [err |-> "UnicodeEncodeError", bytes |-> <<>>]
       ELSE [err |-> "none", bytes |-> Utf8Bytes(string)]

IsCont(b, i) == i <= Len(b) /\ b[i] \in 128..191

\* The code points of UTF-8 bytes b from index i on; <<-1>> marks bytes that
\* are not valid UTF-8.
RECURSIVE Utf8Points(_, _)
Utf8Points(b, i) ==
  IF i > Len(b) THEN <<>>
  ELSE LET c == b[i]
           n == IF c < 128 THEN 1
                ELSE IF c \in 194..223 THEN 2
                ELSE IF c \in 224..239 THEN 3
                ELSE IF c \in 240..244 THEN 4
                ELSE 0
           ok == /\ n > 0
                 /\ \A k \in 1..(n - 1) : IsCont(b, i + k)
                 /\ c = 224 => b[i + 1] >= 160
                 /\ c = 237 => b[i + 1] <= 159
                 /\ c = 240 => b[i + 1] >= 144
                 /\ c = 244 => b[i + 1] <= 143
           cp == CASE n = 1 -> c
                   [] n = 2 -> (c - 192) * 64 + (b[i + 1] - 128)
                   [] n = 3 -> (c - 224) * 4096 + (b[i + 1] - 128) * 64
                               + (b[i + 2] - 128)
                   [] n = 4 -> (c - 240) * 262144 + (b[i + 1] - 128) * 4096
                               + (b[i + 2] - 128) * 64 + (b[i + 3] - 128)
       IN IF ~ok THEN <<-1>>
          ELSE LET rest == Utf8Points(b, i + n)
               IN IF rest # <<>> /\ rest[Len(rest)] = -1 THEN <<-1>>
                  ELSE <<cp>> \o rest

\* data.decode(codec): the str, or UnicodeDecodeError.
decode(data, codec) ==
  IF codec = "ASCII"
  THEN IF \E i \in 1..Len(data) : data[i] >= 128
       THEN [err |-> "UnicodeDecodeError", val |-> "None"]
       ELSE [err |-> "none", val |-> data]
  ELSE LET pts == Utf8Points(data, 1)
       IN IF pts # <<>> /\ pts[Len(pts)] = -1
          THEN [err |-> "UnicodeDecodeError", val |-> "None"]
          ELSE [err |-> "none", val |-> pts]

\* ------------------------------------------------------------------- state
VARIABLES
  rfile,    \* the file at the reader's file_path: its bytes, or NoFile
  rfp,      \* BinaryReader.fp: "None", "open" or "closed"
  rpos,     \* the position of the reader's file object
  rendian,  \* BinaryReader.endian
  wfile,    \* the file at the writer's file_path as it is on disk
  wfp,      \* BinaryWriter.fp: "None", "open" or "closed"
  wpos,     \* the position of the writer's file object
  wbuf,     \* bytes written to the writer's file object and not yet flushed
  wendian,  \* BinaryWriter.endian
  mbuf,     \* the bytes of the MemoryWriter (BytesIO.getvalue())
  mpos,     \* the position of the MemoryWriter
  mendian,  \* MemoryWriter.endian
  ret,      \* the last call: receiver, method, argument, position before it,
            \* value returned and exception raised
  calls,    \* calls made on a writer so far
  pc,       \* where the caller is: "free", or inside a with statement
  exc,      \* the exception travelling through the caller's with statement
  inp       \* the inputs of the round-trip script

rvars == <<rfile, rfp, rpos, rendian>>
wvars == <<wfile, wfp, wpos, wbuf, wendian>>
mvars == <<mbuf, mpos, mendian>>
vars == <<calls, pc, exc, inp, rfile, rfp, rpos, rendian, wfile, wfp, wpos,
          wbuf, wendian, mbuf, mpos, mendian, ret>>

\* A missing file: no byte string.
NoFile == <<-1>>

Ret(obj, op, arg, pre, val, err) ==
  [obj |-> obj, op |-> op, arg |-> arg, pre |-> pre, val |-> val, err |-> err]

\* Python's remainder: the sign of the divisor.
PyMod(a, n) == IF n > 0 THEN a % n ELSE -((-a) % (-n))

\* ------------------------------------------- BinaryReader (over a file object)
\* BinaryReader.read: self.fp.read(number) of a buffered binary file.
read(number) ==
  IF rfp = "None" THEN [err |-> "AttributeError", val |-> "None", pos |-> rpos]
  ELSE IF rfp = "closed" THEN [err |-> "ValueError", val |-> "None", pos |-> rpos]
  ELSE IF number < -1 THEN [err |-> "ValueError", val |-> "None", pos |-> rpos]
  ELSE LET last == IF number = -1 THEN Len(rfile)
                   ELSE Min2(rpos + number, Len(rfile))
           data == SubSeq(rfile, rpos + 1, last)
       IN [err |-> "none", val |-> data, pos |-> rpos + Len(data)]

\* BinaryReader.seek: self.fp.seek(offset).
seek(offset) ==
  IF rfp = "None" THEN [err |-> "AttributeError", val |-> "None", pos |-> rpos]
  ELSE IF rfp = "closed" THEN [err |-> "ValueError", val |-> "None", pos |-> rpos]
  ELSE IF offset < 0 THEN [err |-> "OSError", val |-> "None", pos |-> rpos]
  ELSE [err |-> "none", val |-> offset, pos |-> offset]

\* BinaryReader.tell: self.fp.tell().
tell_cached == [err |-> "none", val |-> rpos]

tell ==
  IF rfp = "None" THEN [err |-> "AttributeError", val |-> "None"]
  ELSE IF rfp = "closed" THEN [err |-> "ValueError", val |-> "None"]
  ELSE [err |-> "none", val |-> rpos]

\* BinaryReader.unpack: up(f"{self.endian.value}{type}", self.read(size))[0].
unpack_anyorder(type, size) ==
  LET r == read(size)
  IN IF r.err # "none" THEN r
     ELSE LET u == up(LITTLE, type, r.val)
          IN [err |-> u.err, val |-> u.val, pos |-> r.pos]

unpack(type, size) ==
  LET r == read(size)
  IN IF r.err # "none" THEN r
     ELSE LET u == up(rendian, type, r.val)
          IN [err |-> u.err, val |-> u.val, pos |-> r.pos]

\* The offset align(number) seeks to from offset.
AlignTarget_noWrap(offset, number) == offset + (number - PyMod(offset, number))

AlignTarget(offset, number) ==
  offset + PyMod(number - PyMod(offset, number), number)

ReaderOpen ==
  /\ IF rfile = NoFile
     THEN /\ ret' = Ret("reader", "open", "None", rpos, "None", "FileNotFoundError")
          /\ UNCHANGED <<rfp, rpos>>
     ELSE /\ ret' = Ret("reader", "open", "None", rpos, "self", "none")
          /\ rfp' = "open"
          /\ rpos' = 0
  /\ UNCHANGED <<rfile, rendian, wvars, mvars>>

ReaderClose ==
  /\ IF rfp = "None"
     THEN /\ ret' = Ret("reader", "close", "None", rpos, "None", "AttributeError")
          /\ UNCHANGED rfp
     ELSE /\ ret' = Ret("reader", "close", "None", rpos, "None", "none")
          /\ rfp' = "closed"
  /\ UNCHANGED <<rfile, rpos, rendian, wvars, mvars>>

ReaderRead(number) ==
  LET r == read(number)
  IN /\ ret' = Ret("reader", "read", number, rpos, r.val, r.err)
     /\ rpos' = r.pos
     /\ UNCHANGED <<rfile, rfp, rendian, wvars, mvars>>

\* read_u8 .. read_i64.
ReaderReadInt(T) ==
  LET r == unpack(T, ReadSize(T))
  IN /\ ret' = Ret("reader", ReadName(T), "None", rpos, r.val, r.err)
     /\ rpos' = r.pos
     /\ UNCHANGED <<rfile, rfp, rendian, wvars, mvars>>

ReaderSeek(offset) ==
  LET r == seek(offset)
  IN /\ ret' = Ret("reader", "seek", offset, rpos, r.val, r.err)
     /\ rpos' = r.pos
     /\ UNCHANGED <<rfile, rfp, rendian, wvars, mvars>>

ReaderTell ==
  /\ ret' = Ret("reader", "tell", "None", rpos, tell.val, tell.err)
  /\ UNCHANGED <<rvars, wvars, mvars>>

\* skip: self.seek(self.tell() + number).
ReaderSkip(number) ==
  LET r == IF tell.err # "none"
           THEN [err |-> tell.err, val |-> "None", pos |-> rpos]
           ELSE seek(tell.val + number)
  IN /\ rpos <= MaxPos
     /\ ret' = Ret("reader", "skip", number, rpos, r.val, r.err)
     /\ rpos' = r.pos
     /\ UNCHANGED <<rfile, rfp, rendian, wvars, mvars>>

\* read_utf8_str (codec "utf-8") and read_ascii_str (codec "ASCII").
ReaderReadStr(codec, length) ==
  LET r == read(length)
      d == decode(r.val, codec)
      op == IF codec = "ASCII" THEN "read_ascii_str" ELSE "read_utf8_str"
  IN /\ IF r.err # "none"
        THEN ret' = Ret("reader", op, length, rpos, "None", r.err)
        ELSE ret' = Ret("reader", op, length, rpos, d.val, d.err)
     /\ rpos' = r.pos
     /\ UNCHANGED <<rfile, rfp, rendian, wvars, mvars>>

\* read_utf8_nt_str and read_ascii_nt_str: the loop starts by calling
\* self.read_ubyte(), which BinaryReader does not define.
ReaderReadNtStr(codec, nt) ==
  LET op == IF codec = "ASCII" THEN "read_ascii_nt_str" ELSE "read_utf8_nt_str"
  IN /\ ret' = Ret("reader", op, nt, rpos, "None", "AttributeError")
     /\ UNCHANGED <<rvars, wvars, mvars>>

ReaderAlign(number) ==
  LET r == IF tell.err # "none"
           THEN [err |-> tell.err, val |-> "None", pos |-> rpos]
           ELSE IF number = 0
           THEN [err |-> "ZeroDivisionError", val |-> "None", pos |-> rpos]
           ELSE seek(AlignTarget(tell.val, number))
  IN /\ rpos <= MaxPos
     /\ ret' = Ret("reader", "align", number, rpos, r.val, r.err)
     /\ rpos' = r.pos
     /\ UNCHANGED <<rfile, rfp, rendian, wvars, mvars>>

\* ------------------------------------------------- MemoryWriter (a BytesIO)
\* BytesIO.write(b) at position pos of buf: the gap an earlier seek left past
\* the end is filled with zero bytes; writing nothing changes nothing.
BytesIOWrite(buf, pos, b) ==
  IF Len(b) = 0 THEN [buf |-> buf, pos |-> pos, val |-> 0]
  ELSE [buf |-> [i \in 1..Max2(Len(buf), pos + Len(b)) |->
                   IF i > pos /\ i <= pos + Len(b) THEN b[i - pos]
                   ELSE IF i <= Len(buf) THEN buf[i]
                   ELSE 0],
        pos |-> pos + Len(b),
        val |-> Len(b)]

\* BytesIO.seek(offset).
BytesIOSeek_anywhere(pos, offset) == [err |-> "none", val |-> offset, pos |-> offset]

BytesIOSeek(pos, offset) ==
  IF offset < 0 THEN [err |-> "ValueError", val |-> "None", pos |-> pos]
  ELSE [err |-> "none", val |-> offset, pos |-> offset]

\* MemoryWriter.pack: self.write(pk(f"{self.endian.value}{type}", number)).
MemoryPack(T, number) ==
  LET p == pk(mendian, T, number)
      w == BytesIOWrite(mbuf, mpos, p.bytes)
  IN /\ IF p.err # "none"
        THEN /\ ret' = Ret("memory", WriteName(T), number, mpos, "None", p.err)
             /\ UNCHANGED <<mbuf, mpos>>
        ELSE /\ ret' = Ret("memory", WriteName(T), number, mpos, w.val, "none")
             /\ mbuf' = w.buf
             /\ mpos' = w.pos
     /\ UNCHANGED <<mendian, rvars, wvars>>

\* write_utf8_str (codec "utf-8") and write_ascii_str (codec "ASCII").
MemoryWriteStr(codec, string) ==
  LET e == encode(string, codec)
      w == BytesIOWrite(mbuf, mpos, e.bytes)
      op == IF codec = "ASCII" THEN "write_ascii_str" ELSE "write_utf8_str"
  IN /\ IF e.err # "none"
        THEN /\ ret' = Ret("memory", op, string, mpos, "None", e.err)
             /\ UNCHANGED <<mbuf, mpos>>
        ELSE /\ ret' = Ret("memory", op, string, mpos, w.val, "none")
             /\ mbuf' = w.buf
             /\ mpos' = w.pos
     /\ UNCHANGED <<mendian, rvars, wvars>>

\* write_utf8_nt_str and write_ascii_nt_str: the string is written, then
\* self.write_ubyte(nt) is looked up, which MemoryWriter does not define.
MemoryWriteNtStr(codec, string, nt) ==
  LET e == encode(string, codec)
      w == BytesIOWrite(mbuf, mpos, e.bytes)
      op == IF codec = "ASCII" THEN "write_ascii_nt_str" ELSE "write_utf8_nt_str"
      arg == [string |-> string, nt |-> nt]
  IN /\ IF e.err # "none"
        THEN /\ ret' = Ret("memory", op, arg, mpos, "None", e.err)
             /\ UNCHANGED <<mbuf, mpos>>
        ELSE /\ ret' = Ret("memory", op, arg, mpos, "None", "AttributeError")
             /\ mbuf' = w.buf
             /\ mpos' = w.pos
     /\ UNCHANGED <<mendian, rvars, wvars>>

MemorySeek(offset) ==
  LET r == BytesIOSeek(mpos, offset)
  IN /\ ret' = Ret("memory", "seek", offset, mpos, r.val, r.err)
     /\ mpos' = r.pos
     /\ UNCHANGED <<mbuf, mendian, rvars, wvars>>

MemoryTell ==
  /\ ret' = Ret("memory", "tell", "None", mpos, mpos, "none")
  /\ UNCHANGED <<mvars, rvars, wvars>>

MemoryAlign(number) ==
  LET r == IF number = 0
           THEN [err |-> "ZeroDivisionError", val |-> "None", pos |-> mpos]
           ELSE BytesIOSeek(mpos, AlignTarget(mpos, number))
  IN /\ ret' = Ret("memory", "align", number, mpos, r.val, r.err)
     /\ mpos' = r.pos
     /\ UNCHANGED <<mbuf, mendian, rvars, wvars>>

MemorySkip(number) ==
  LET r == BytesIOSeek(mpos, mpos + number)
  IN /\ ret' = Ret("memory", "skip", number, mpos, r.val, r.err)
     /\ mpos' = r.pos
     /\ UNCHANGED <<mbuf, mendian, rvars, wvars>>

\* The bytes property: self.getvalue().
MemoryBytes ==
  /\ ret' = Ret("memory", "bytes", "None", mpos, mbuf, "none")
  /\ UNCHANGED <<mvars, rvars, wvars>>

\* ------------------------------------------- BinaryWriter (over a file object)
\* The file once pending, written from offset 0 on, has reached the disk.
Flushed(file, pending) ==
  IF file = NoFile THEN pending
  ELSE pending \o SubSeq(file, Len(pending) + 1, Len(file))

\* open(file_path, "wb") creates or truncates the file.  A file object that
\* self.fp still held is dropped by the assignment: it is closed as its last
\* reference goes, and its pending bytes reach the truncated file.
WriterOpen ==
  /\ ret' = Ret("writer", "open", "None", wpos, "self", "none")
  /\ wfile' = IF wfp = "open" THEN wbuf ELSE <<>>
  /\ wfp' = "open"
  /\ wpos' = 0
  /\ wbuf' = <<>>
  /\ UNCHANGED <<wendian, rvars, mvars>>

\* close: self.fp.close() flushes; closing a closed file object does nothing.
WriterClose ==
  /\ IF wfp = "None"
     THEN /\ ret' = Ret("writer", "close", "None", wpos, "None", "AttributeError")
          /\ UNCHANGED <<wfile, wfp, wbuf>>
     ELSE /\ ret' = Ret("writer", "close", "None", wpos, "None", "none")
          /\ wfile' = IF wfp = "open" THEN Flushed(wfile, wbuf) ELSE wfile
          /\ wfp' = "closed"
          /\ wbuf' = <<>>
  /\ UNCHANGED <<wpos, wendian, rvars, mvars>>

\* BinaryWriter.write: self.fp.write(buffer) of a buffered binary file.
write(buffer) ==
  IF wfp = "None"
  THEN [err |-> "AttributeError", val |-> "None", buf |-> wbuf, pos |-> wpos]
  ELSE IF wfp = "closed"
  THEN [err |-> "ValueError", val |-> "None", buf |-> wbuf, pos |-> wpos]
  ELSE [err |-> "none", val |-> Len(buffer), buf |-> wbuf \o buffer,
        pos |-> wpos + Len(buffer)]

WriterWrite(buffer) ==
  LET w == write(buffer)
  IN /\ ret' = Ret("writer", "write", buffer, wpos, w.val, w.err)
     /\ wbuf' = w.buf
     /\ wpos' = w.pos
     /\ UNCHANGED <<wfile, wfp, wendian, rvars, mvars>>

\* BinaryWriter.pack: self.write(pk(f"{self.endian.value}{type}", number)).
WriterPack(T, number) ==
  LET p == pk(wendian, T, number)
      w == write(p.bytes)
  IN /\ IF p.err # "none"
        THEN /\ ret' = Ret("writer", WriteName(T), number, wpos, "None", p.err)
             /\ UNCHANGED <<wbuf, wpos>>
        ELSE /\ ret' = Ret("writer", WriteName(T), number, wpos, w.val, w.err)
             /\ wbuf' = w.buf
             /\ wpos' = w.pos
     /\ UNCHANGED <<wfile, wfp, wendian, rvars, mvars>>

WriterWriteStr(codec, string) ==
  LET e == encode(string, codec)
      w == write(e.bytes)
      op == IF codec = "ASCII" THEN "write_ascii_str" ELSE "write_utf8_str"
  IN /\ IF e.err # "none"
        THEN /\ ret' = Ret("writer", op, string, wpos, "None", e.err)
             /\ UNCHANGED <<wbuf, wpos>>
        ELSE /\ ret' = Ret("writer", op, string, wpos, w.val, w.err)
             /\ wbuf' = w.buf
             /\ wpos' = w.pos
     /\ UNCHANGED <<wfile, wfp, wendian, rvars, mvars>>

\* write_utf8_nt_str and write_ascii_nt_str: the string is written, then
\* self.write_ubyte(nt) is looked up, which BinaryWriter does not define.
WriterWriteNtStr(codec, string, nt) ==
  LET e == encode(string, codec)
      w == write(e.bytes)
      op == IF codec = "ASCII" THEN "write_ascii_nt_str" ELSE "write_utf8_nt_str"
      arg == [string |-> string, nt |-> nt]
  IN /\ IF e.err # "none"
        THEN /\ ret' = Ret("writer", op, arg, wpos, "None", e.err)
             /\ UNCHANGED <<wbuf, wpos>>
        ELSE /\ ret' = Ret("writer", op, arg, wpos, "None",
                           IF w.err # "none" THEN w.err ELSE "AttributeError")
             /\ wbuf' = w.buf
             /\ wpos' = w.pos
     /\ UNCHANGED <<wfile, wfp, wendian, rvars, mvars>>

\* BinaryWriter defines neither seek nor tell: looking either up on the
\* writer raises AttributeError, whatever the state of fp.
WriterSeek(offset) ==
  /\ ret' = Ret("writer", "seek", offset, wpos, "None", "AttributeError")
  /\ UNCHANGED <<wvars, rvars, mvars>>

WriterTell ==
  /\ ret' = Ret("writer", "tell", "None", wpos, "None", "AttributeError")
  /\ UNCHANGED <<wvars, rvars, mvars>>

\* align: its first statement is offset = self.tell().
WriterAlign(number) ==
  /\ ret' = Ret("writer", "align", number, wpos, "None", "AttributeError")
  /\ UNCHANGED <<wvars, rvars, mvars>>

\* skip: self.seek(self.tell() + number).
WriterSkip(number) ==
  /\ ret' = Ret("writer", "skip", number, wpos, "None", "AttributeError")
  /\ UNCHANGED <<wvars, rvars, mvars>>

\* ------------------------------------------------------------ input sets
\* The extreme values of each type, one value inside the range and the
\* nearest values outside it.
MaxOf(T) ==
  IF Signed(T) THEN PyInt(FALSE, Ones(StructSize(T) - 1) \o <<127>>)
  ELSE PyInt(FALSE, Ones(StructSize(T)))

MinOf(T) ==
  IF Signed(T) THEN PyInt(TRUE, Zeros(StructSize(T) - 1) \o <<128>>)
  ELSE PyInt(FALSE, <<>>)

AboveMax(T) ==
  IF Signed(T) THEN PyInt(FALSE, Zeros(StructSize(T) - 1) \o <<128>>)
  ELSE PyInt(FALSE, Zeros(StructSize(T)) \o <<1>>)

BelowMin(T) ==
  IF ~Signed(T) THEN PyInt(TRUE, <<1>>)
  ELSE IF StructSize(T) = 1 THEN PyInt(TRUE, <<129>>)
  ELSE PyInt(TRUE, <<1>> \o Zeros(StructSize(T) - 2) \o <<128>>)

Sample(T) ==
  CASE T = "B" -> FromInt(1)
    [] T = "b" -> FromInt(-2)
    [] T = "H" -> FromInt(2)
    [] T = "h" -> FromInt(-300)
    [] T = "I" -> FromInt(305419896)
    [] T = "i" -> FromInt(-305419896)
    [] T = "Q" -> PyInt(FALSE, <<8, 7, 6, 5, 4, 3, 2, 1>>)
    [] T = "q" -> PyInt(TRUE, <<8, 7, 6, 5, 4, 3, 2, 1>>)

Representable(T) == {MinOf(T), MaxOf(T), Sample(T)}
IntValues(T) == Representable(T) \cup {AboveMax(T), BelowMin(T)}

\* "", "abc" and "é".
Strings == {<<>>, <<97, 98, 99>>, <<233>>}
\* The default terminator, and "b".
Terminators == {0, 98}
Codecs == {"utf-8", "ASCII"}
Buffers == {<<>>, <<1, 2>>}

\* "", "abc\0", eight bytes of integers, and "é" followed by a stray byte.
Files ==
  {NoFile, <<>>, <<97, 98, 99, 0>>, <<120, 86, 52, 18, 255, 255, 255, 128>>,
   <<195, 169, 128>>}

ReadCounts == -2..MaxRead
SeekOffsets == -1..MaxPos
SkipCounts == -2..2
AlignCounts == -2..MaxPos

\* -------------------------------------------------------------------- Init
\* Nothing is constructed yet.
Init ==
  /\ rfile = NoFile /\ rfp = "None" /\ rpos = 0 /\ rendian = "None"
  /\ wfile = NoFile /\ wfp = "None" /\ wpos = 0 /\ wbuf = <<>> /\ wendian = "None"
  /\ mbuf = <<>> /\ mpos = 0 /\ mendian = "None"
  /\ ret = Ret("none", "none", "None", 0, "None", "none")
  /\ calls = 0
  /\ pc = "free"
  /\ exc = "none"
  /\ inp = "None"

\* --------------------------------------------------------------- the caller
\* The three handles share no state, so a run constructs one of them and
\* drives it.  A call made inside a with statement that raises leaves the
\* body: the exception travels to __exit__.
Caller(obj) == pc \in {"free", "body"} /\ ret.obj = obj

Returned ==
  /\ pc' = IF pc = "body" /\ ret'.err # "none" THEN "raise" ELSE pc
  /\ exc' = IF pc = "body" /\ ret'.err # "none" THEN ret'.err ELSE exc
  /\ UNCHANGED inp

Budget == calls < MaxCalls /\ calls' = calls + 1

\* BinaryReader(file_path, endian): file_path names one of the files.
ReaderInit ==
  \E file \in Files, endian \in BinaryEndian :
    /\ ret.obj = "none" /\ pc = "free"
    /\ rfile' = file
    /\ rendian' = endian
    /\ rfp' = "None"
    /\ ret' = Ret("reader", "__init__", endian, 0, "None", "none")
    /\ UNCHANGED <<rpos, wvars, mvars, calls, pc, exc, inp>>

\* MemoryWriter(endian).
MemoryInit ==
  \E endian \in BinaryEndian :
    /\ ret.obj = "none" /\ pc = "free"
    /\ mendian' = endian
    /\ ret' = Ret("memory", "__init__", endian, 0, "None", "none")
    /\ UNCHANGED <<mbuf, mpos, rvars, wvars, calls, pc, exc, inp>>

\* BinaryWriter(file_path, endian).
WriterInit ==
  \E endian \in BinaryEndian :
    /\ ret.obj = "none" /\ pc = "free"
    /\ wendian' = endian
    /\ wfp' = "None"
    /\ ret' = Ret("writer", "__init__", endian, 0, "None", "none")
    /\ UNCHANGED <<wfile, wpos, wbuf, rvars, mvars, calls, pc, exc, inp>>

\* Whether the value __exit__ returns makes the with statement swallow the
\* exception.
Truthy(val) == val # "None"

\* with reader: __enter__ returns self.open().
ReaderEnter ==
  /\ pc = "free" /\ ret.obj = "reader"
  /\ ReaderOpen
  /\ pc' = IF ret'.err = "none" THEN "body" ELSE "done_raised"
  /\ exc' = ret'.err
  /\ UNCHANGED <<calls, inp>>

\* __exit__ returns self.close(); it runs when the body ends and when a call
\* in the body raised.
ReaderExit_keepOpen ==
  /\ pc \in {"body", "raise"} /\ ret.obj = "reader"
  /\ ret' = Ret("reader", "__exit__", "None", rpos, "None", "none")
  /\ pc' = IF pc = "raise" THEN "done_raised" ELSE "done"
  /\ UNCHANGED <<rvars, wvars, mvars, exc, calls, inp>>

ReaderExit ==
  /\ pc \in {"body", "raise"} /\ ret.obj = "reader"
  /\ ReaderClose
  /\ pc' = IF pc = "raise" THEN "done_raised" ELSE "done"
  /\ exc' = IF ret'.err # "none" THEN ret'.err
            ELSE IF Truthy(ret'.val) THEN "none"
            ELSE exc
  /\ UNCHANGED <<calls, inp>>

WriterEnter ==
  /\ pc = "free" /\ ret.obj = "writer"
  /\ WriterOpen
  /\ pc' = IF ret'.err = "none" THEN "body" ELSE "done_raised"
  /\ exc' = ret'.err
  /\ UNCHANGED <<calls, inp>>

WriterExit ==
  /\ pc \in {"body", "raise"} /\ ret.obj = "writer"
  /\ WriterClose
  /\ pc' = IF pc = "raise" THEN "done_raised" ELSE "done"
  /\ exc' = IF ret'.err # "none" THEN ret'.err
            ELSE IF Truthy(ret'.val) THEN "none"
            ELSE exc
  /\ UNCHANGED <<calls, inp>>

CallReaderOpen == Caller("reader") /\ ReaderOpen /\ Returned /\ UNCHANGED calls
CallReaderClose == Caller("reader") /\ ReaderClose /\ Returned /\ UNCHANGED calls
CallReaderRead ==
  \E n \in ReadCounts : Caller("reader") /\ ReaderRead(n) /\ Returned /\ UNCHANGED calls
CallReaderReadInt ==
  \E T \in Types : Caller("reader") /\ ReaderReadInt(T) /\ Returned /\ UNCHANGED calls
CallReaderSeek ==
  \E o \in SeekOffsets : Caller("reader") /\ ReaderSeek(o) /\ Returned /\ UNCHANGED calls
CallReaderTell == Caller("reader") /\ ReaderTell /\ Returned /\ UNCHANGED calls
CallReaderSkip ==
  \E n \in SkipCounts : Caller("reader") /\ ReaderSkip(n) /\ Returned /\ UNCHANGED calls
CallReaderReadStr ==
  \E c \in Codecs, n \in 0..MaxRead :
    Caller("reader") /\ ReaderReadStr(c, n) /\ Returned /\ UNCHANGED calls
CallReaderReadNtStr ==
  \E c \in Codecs, nt \in Terminators :
    Caller("reader") /\ ReaderReadNtStr(c, nt) /\ Returned /\ UNCHANGED calls
CallReaderAlign ==
  \E n \in AlignCounts : Caller("reader") /\ ReaderAlign(n) /\ Returned /\ UNCHANGED calls

CallMemoryPack ==
  \E T \in Types : \E v \in IntValues(T) :
    Caller("memory") /\ Budget /\ MemoryPack(T, v) /\ Returned
CallMemoryWriteStr ==
  \E c \in Codecs, s \in Strings :
    Caller("memory") /\ Budget /\ MemoryWriteStr(c, s) /\ Returned
CallMemoryWriteNtStr ==
  \E c \in Codecs, s \in Strings, nt \in Terminators :
    Caller("memory") /\ Budget /\ MemoryWriteNtStr(c, s, nt) /\ Returned
CallMemorySeek ==
  \E o \in SeekOffsets : Caller("memory") /\ Budget /\ MemorySeek(o) /\ Returned
CallMemoryTell == Caller("memory") /\ Budget /\ MemoryTell /\ Returned
CallMemoryAlign ==
  \E n \in AlignCounts : Caller("memory") /\ Budget /\ MemoryAlign(n) /\ Returned
CallMemorySkip ==
  \E n \in SkipCounts : Caller("memory") /\ Budget /\ MemorySkip(n) /\ Returned
CallMemoryBytes == Caller("memory") /\ Budget /\ MemoryBytes /\ Returned

CallWriterOpen == Caller("writer") /\ WriterOpen /\ Returned /\ UNCHANGED calls
CallWriterClose == Caller("writer") /\ WriterClose /\ Returned /\ UNCHANGED calls
CallWriterWrite ==
  \E b \in Buffers : Caller("writer") /\ Budget /\ WriterWrite(b) /\ Returned
CallWriterPack ==
  \E T \in Types : \E v \in {Sample(T), AboveMax(T)} :
    Caller("writer") /\ Budget /\ WriterPack(T, v) /\ Returned
CallWriterWriteStr ==
  \E c \in Codecs, s \in Strings :
    Caller("writer") /\ Budget /\ WriterWriteStr(c, s) /\ Returned
CallWriterWriteNtStr ==
  \E c \in Codecs, s \in Strings :
    Caller("writer") /\ Budget /\ WriterWriteNtStr(c, s, 0) /\ Returned
CallWriterSeek ==
  \E o \in {0, MaxPos} : Caller("writer") /\ Budget /\ WriterSeek(o) /\ Returned
CallWriterTell == Caller("writer") /\ Budget /\ WriterTell /\ Returned
CallWriterAlign ==
  \E n \in {2} : Caller("writer") /\ Budget /\ WriterAlign(n) /\ Returned
CallWriterSkip ==
  \E n \in {1} : Caller("writer") /\ Budget /\ WriterSkip(n) /\ Returned

Next ==
  \/ ReaderInit \/ MemoryInit \/ WriterInit
  \/ ReaderEnter \/ ReaderExit \/ WriterEnter \/ WriterExit
  \/ CallReaderOpen \/ CallReaderClose \/ CallReaderRead \/ CallReaderReadInt
  \/ CallReaderSeek \/ CallReaderTell \/ CallReaderSkip \/ CallReaderReadStr
  \/ CallReaderReadNtStr \/ CallReaderAlign
  \/ CallMemoryPack \/ CallMemoryWriteStr \/ CallMemoryWriteNtStr
  \/ CallMemorySeek \/ CallMemoryTell \/ CallMemoryAlign \/ CallMemorySkip
  \/ CallMemoryBytes
  \/ CallWriterOpen \/ CallWriterClose \/ CallWriterWrite \/ CallWriterPack
  \/ CallWriterWriteStr \/ CallWriterWriteNtStr \/ CallWriterSeek
  \/ CallWriterTell \/ CallWriterAlign \/ CallWriterSkip

Spec == Init /\ [][Next]_vars

\* ------------------------------------------------- the round-trip script
\* A caller writes one integer at offset inp.p with a MemoryWriter or a
\* BinaryWriter, hands the bytes to a BinaryReader and reads the integer back
\* at the same offset.
Filler(n) == [i \in 1..n |-> 170]

InitRT ==
  /\ \E T \in Types : \E v \in Representable(T) :
       \E p \in 0..MaxPos, src \in {"memory", "writer"} :
         inp = [T |-> T, v |-> v, p |-> p, src |-> src]
  /\ rendian \in BinaryEndian /\ wendian \in BinaryEndian /\ mendian \in BinaryEndian
  /\ rfile = NoFile /\ rfp = "None" /\ rpos = 0
  /\ wfile = NoFile /\ wfp = "None" /\ wpos = 0 /\ wbuf = <<>>
  /\ mbuf = <<>> /\ mpos = 0
  /\ ret = Ret("none", "none", "None", 0, "None", "none")
  /\ calls = 0
  /\ pc = IF inp.src = "memory" THEN "rt_seek" ELSE "rt_open"
  /\ exc = "none"

\* The caller stores the snapshot m.bytes as the file the reader will open.
StoreBytes ==
  /\ rfp # "open"
  /\ ret' = Ret("memory", "bytes", "None", mpos, mbuf, "none")
  /\ rfile' = mbuf
  /\ UNCHANGED <<rfp, rpos, rendian, wvars, mvars>>

\* The reader is given the file the writer has closed.
ShareFile ==
  /\ rfp # "open" /\ wfp = "closed"
  /\ rfile' = wfile
  /\ UNCHANGED <<rfp, rpos, rendian, wvars, mvars, ret>>

Script(at, then) == pc = at /\ pc' = then /\ UNCHANGED <<calls, exc, inp>>

RTMemorySeek == Script("rt_seek", "rt_pack") /\ MemorySeek(inp.p)
RTMemoryPack == Script("rt_pack", "rt_bytes") /\ MemoryPack(inp.T, inp.v)
RTStoreBytes == Script("rt_bytes", "rt_ropen") /\ StoreBytes
RTWriterOpen == Script("rt_open", "rt_fill") /\ WriterOpen
RTWriterFill == Script("rt_fill", "rt_wpack") /\ WriterWrite(Filler(inp.p))
RTWriterPack == Script("rt_wpack", "rt_close") /\ WriterPack(inp.T, inp.v)
RTWriterClose == Script("rt_close", "rt_share") /\ WriterClose
RTShareFile == Script("rt_share", "rt_ropen") /\ ShareFile
RTReaderOpen == Script("rt_ropen", "rt_rseek") /\ ReaderOpen
RTReaderSeek == Script("rt_rseek", "rt_read") /\ ReaderSeek(inp.p)
RTReaderReadInt == Script("rt_read", "rt_done") /\ ReaderReadInt(inp.T)

NextRT ==
  \/ RTMemorySeek \/ RTMemoryPack \/ RTStoreBytes
  \/ RTWriterOpen \/ RTWriterFill \/ RTWriterPack \/ RTWriterClose \/ RTShareFile
  \/ RTReaderOpen \/ RTReaderSeek \/ RTReaderReadInt

SpecRT == InitRT /\ [][NextRT]_vars

\* ------------------------------------------------------------------ claims
IntWriteOps == {WriteName(T) : T \in Types}
StrWriteOps == {"write_utf8_str", "write_ascii_str"}
NtWriteOps == {"write_utf8_nt_str", "write_ascii_nt_str"}
NtReadOps == {"read_utf8_nt_str", "read_ascii_nt_str"}
WriteOps == IntWriteOps \cup StrWriteOps \cup NtWriteOps \cup {"write"}
ReadOps ==
  {ReadName(T) : T \in Types} \cup NtReadOps
  \cup {"read", "read_utf8_str", "read_ascii_str"}

CodecOf(op) ==
  IF op \in {"write_ascii_nt_str", "read_ascii_nt_str"} THEN "ASCII" ELSE "utf-8"

\* What the writer's file will hold once the pending bytes are flushed.
WriterView == Flushed(wfile, wbuf)

\* The endianness, cursor and bytes of the writer the last call was made on.
SinkEndian == IF ret.obj = "memory" THEN mendian ELSE wendian
SinkPos == IF ret.obj = "memory" THEN mpos ELSE wpos
SinkBytes == IF ret.obj = "memory" THEN mbuf ELSE WriterView

\* The digits of a + b + carry, for byte strings a and b of one length, the
\* carry out of the last byte as one more digit.
RECURSIVE SumBytes(_, _, _)
SumBytes(a, b, carry) ==
  IF a = <<>> THEN <<carry>>
  ELSE <<(a[1] + b[1] + carry) % 256>>
       \o SumBytes(Tail(a), Tail(b), (a[1] + b[1] + carry) \div 256)

\* C1: an integer of any width and signedness, its minimum and maximum
\* included, written at offset p and read with the matching read_<type> by a
\* reader of the same endianness positioned at p, comes back as the value
\* written, the reader's cursor past it.
C1_IntRoundTrip ==
  (pc = "rt_done"
   /\ rendian = (IF inp.src = "memory" THEN mendian ELSE wendian))
  => /\ ret.err = "none"
     /\ ret.val = inp.v
     /\ rpos = inp.p + StructSize(inp.T)

C1_Witness ==
  /\ pc = "rt_done"
  /\ inp.T = "q" /\ inp.v = MinOf("q") /\ inp.p = 1 /\ inp.src = "writer"
  /\ rendian = BIG /\ wendian = BIG
  /\ ret.op = "read_i64" /\ ret.err = "none" /\ ret.val = MinOf("q")

\* C2: write_ascii_nt_str / write_utf8_nt_str of a string without the
\* terminator byte puts the encoded string and one terminator byte into the
\* sink and returns their count; read_ascii_nt_str / read_utf8_nt_str over such
\* bytes returns the string and leaves the cursor just past the terminator.
C2_NtStrRoundTrip ==
  /\ (/\ ret.obj \in {"memory", "writer"}
      /\ ret.op \in NtWriteOps
      /\ ret.obj = "writer" => wfp = "open"
      /\ encode(ret.arg.string, CodecOf(ret.op)).err = "none"
      /\ \A i \in 1..Len(encode(ret.arg.string, CodecOf(ret.op)).bytes) :
           encode(ret.arg.string, CodecOf(ret.op)).bytes[i] # ret.arg.nt)
     => LET e == encode(ret.arg.string, CodecOf(ret.op)).bytes
        IN /\ ret.err = "none"
           /\ ret.val = Len(e) + 1
           /\ SinkPos = ret.pre + Len(e) + 1
           /\ SubSeq(SinkBytes, ret.pre + 1, ret.pre + Len(e) + 1) = e \o <<ret.arg.nt>>
  /\ \A string \in Strings :
       LET e == encode(string, CodecOf(ret.op))
       IN (/\ ret.obj = "reader"
           /\ ret.op \in NtReadOps
           /\ rfp = "open"
           /\ e.err = "none"
           /\ \A i \in 1..Len(e.bytes) : e.bytes[i] # ret.arg
           /\ ret.pre + Len(e.bytes) + 1 <= Len(rfile)
           /\ SubSeq(rfile, ret.pre + 1, ret.pre + Len(e.bytes) + 1)
                = e.bytes \o <<ret.arg>>)
          => /\ ret.err = "none"
             /\ ret.val = string
             /\ rpos = ret.pre + Len(e.bytes) + 1

\* C3: read(n) on an open reader returns exactly the n bytes at the cursor and
\* moves the cursor past them, and fails, returning no bytes, when fewer than n
\* remain.
C3_ReadExactOrFail ==
  (ret.obj = "reader" /\ ret.op = "read" /\ rfp = "open" /\ ret.arg >= 0)
  => IF ret.pre + ret.arg <= Len(rfile)
     THEN /\ ret.err = "none"
          /\ ret.val = SubSeq(rfile, ret.pre + 1, ret.pre + ret.arg)
          /\ rpos = ret.pre + ret.arg
     ELSE ret.err # "none"

\* C4: align(n), n > 0, on an open reader or a memory writer at cursor p moves
\* the cursor to q with q mod n = 0, q - p = (n - p mod n) mod n and
\* 0 <= q - p < n; from an aligned cursor, as after a first align(n), it leaves
\* the cursor where it is.
C4_AlignForward ==
  (/\ ret.obj \in {"reader", "memory"}
   /\ ret.op = "align"
   /\ ret.arg > 0
   /\ ret.obj = "reader" => rfp = "open")
  => LET p == ret.pre
         n == ret.arg
         q == IF ret.obj = "reader" THEN rpos ELSE mpos
     IN /\ ret.err = "none"
        /\ ret.val = q
        /\ q % n = 0
        /\ q - p = (n - (p % n)) % n
        /\ 0 <= q - p /\ q - p < n
        /\ p % n = 0 => q = p

C4_Witness ==
  /\ ret.obj = "reader" /\ ret.op = "align" /\ ret.arg = 4 /\ ret.pre = 1
  /\ rfp = "open" /\ rpos = 4

\* C5: on an open file-backed writer seek, tell, skip and align succeed and
\* leave the cursor where the same call leaves the cursor of a reader: seek(o)
\* at o, tell() in place returning it, skip(n) at the cursor plus n, align(n)
\* at the next multiple of n.
C5_WriterCursorOps ==
  (/\ ret.obj = "writer"
   /\ wfp = "open"
   /\ ret.op \in {"seek", "tell", "skip", "align"}
   /\ ret.op = "seek" => ret.arg >= 0
   /\ ret.op = "skip" => ret.pre + ret.arg >= 0
   /\ ret.op = "align" => ret.arg > 0)
  => /\ ret.err = "none"
     /\ wpos = CASE ret.op = "seek" -> ret.arg
                 [] ret.op = "tell" -> ret.pre
                 [] ret.op = "skip" -> ret.pre + ret.arg
                 [] ret.op = "align" -> AlignTarget(ret.pre, ret.arg)

\* C6 as stated: the cursor of an open reader or writer is never negative and
\* never beyond the size of its medium.
C6_CursorWithinMedium ==
  /\ rfp = "open" => 0 <= rpos /\ rpos <= Len(rfile)
  /\ wfp = "open" => 0 <= wpos /\ wpos <= Len(WriterView)
  /\ 0 <= mpos /\ mpos <= Len(mbuf)

\* C6, amended: the cursor is never negative, and a read or a write never
\* leaves it beyond the end of the medium unless it already was there; only
\* seek, skip and align place it beyond the end.
C6_CursorNeverNegative ==
  /\ 0 <= rpos /\ 0 <= wpos /\ 0 <= mpos
  /\ (ret.obj = "reader" /\ rfp = "open" /\ ret.op \in ReadOps)
     => rpos <= Max2(Len(rfile), ret.pre)
  /\ (ret.obj = "writer" /\ wfp = "open" /\ ret.op \in WriteOps)
     => wpos <= Max2(Len(WriterView), ret.pre)
  /\ (ret.obj = "memory" /\ ret.op \in WriteOps)
     => mpos <= Max2(Len(mbuf), ret.pre)

C6_Witness ==
  /\ ret.obj = "memory" /\ ret.op = "write_u8" /\ ret.err = "none"
  /\ ret.pre = 3 /\ mpos = 4 /\ Len(mbuf) = 4

\* The methods of a reader or writer that need the handle open, close included.
NeedOpen == ReadOps \cup WriteOps \cup {"seek", "tell", "skip", "align", "close"}

\* A call is a step that changes the receiver named in ret, the method, the
\* call count or the caller's position; a step that changes none of them is a
\* stuttering step.
call == <<calls, pc, exc, rvars, wvars, mvars, ret.obj, ret.op, ret.err>>

\* C7 as stated: every method other than open, close included, called on a
\* reader or writer whose handle is not open raises and returns nothing.
C7_NotOpenFails ==
  [][/\ (ret'.obj = "reader" /\ ret'.op \in NeedOpen /\ rfp # "open")
        => ret'.err # "none"
     /\ (ret'.obj = "writer" /\ ret'.op \in NeedOpen /\ wfp # "open")
        => ret'.err # "none"]_call

\* C7, amended: every method other than open and close called on a reader or
\* writer whose handle is not open raises and returns nothing; close raises
\* before the first open and returns normally, changing nothing, after a close.
C7_NotOpenFailsButClose ==
  [][/\ (ret'.obj = "reader" /\ ret'.op \in NeedOpen /\ rfp # "open")
        => IF ret'.op = "close" /\ rfp = "closed"
           THEN ret'.err = "none" /\ rfp' = "closed" /\ rpos' = rpos
           ELSE IF ret'.err = "none" THEN FALSE ELSE ret'.val = "None"
     /\ (ret'.obj = "writer" /\ ret'.op \in NeedOpen /\ wfp # "open")
        => IF ret'.op = "close" /\ wfp = "closed"
           THEN ret'.err = "none" /\ wfp' = "closed" /\ wfile' = wfile
           ELSE IF ret'.err = "none" THEN FALSE ELSE ret'.val = "None"]_call

C7_Witness ==
  /\ ret.obj = "reader" /\ ret.op = "read_u8" /\ rfp = "closed"
  /\ ret.err = "ValueError"

\* C8: when a with statement over a reader or writer is left, by the end of
\* its body or by an exception raised in it, the file object is closed and the
\* writer's bytes are on disk; an exception raised in the body or by open
\* leaves the statement, and none leaves it otherwise.
C8_ScopeReleases ==
  pc \in {"done", "done_raised"}
  => /\ ret.obj = "reader" => rfp # "open"
     /\ ret.obj = "writer" => wfp = "closed" /\ wbuf = <<>>
     /\ pc = "done_raised" => exc # "none"
     /\ pc = "done" => exc = "none"

C8_Witness ==
  /\ pc = "done_raised" /\ ret.obj = "reader" /\ ret.op = "close"
  /\ rfp = "closed" /\ exc = "struct.error"

\* C9: a typed write of a representable value at cursor p returns the width of
\* its type, moves the cursor to p + width and leaves at offsets p..p+width-1
\* the value modulo 256^width, least significant byte first under LITTLE and
\* most significant first under BIG; u32 0x12345678 is 78 56 34 12 or
\* 12 34 56 78, and write_u8(1), write_u16(2) on a fresh LITTLE memory writer
\* leaves 01 02 00.
C9_TypedWriteBytes ==
  \A T \in Types :
    (/\ ret.obj \in {"memory", "writer"}
     /\ ret.op = WriteName(T)
     /\ InRange(T, ret.arg)
     /\ ret.obj = "writer" => wfp = "open")
    => LET w == StructSize(T)
           v == ret.arg
           b == SubSeq(SinkBytes, ret.pre + 1, ret.pre + w)
           le == IF SinkEndian = LITTLE THEN b ELSE Reverse(b)
       IN /\ ret.err = "none"
          /\ ret.val = w
          /\ SinkPos = ret.pre + w
          /\ Len(SinkBytes) >= ret.pre + w
          /\ IF v.neg
             THEN SumBytes(le, v.mag \o Zeros(w - Len(v.mag)), 0) = Zeros(w) \o <<1>>
             ELSE Strip(le) = v.mag
          /\ w <= 2 => MagValue(le) = ToInt(v) % (IF w = 1 THEN 256 ELSE 65536)
          /\ (T = "I" /\ v = FromInt(305419896))
             => b = IF SinkEndian = LITTLE THEN <<120, 86, 52, 18>>
                    ELSE <<18, 52, 86, 120>>
          /\ (/\ ret.obj = "memory" /\ mendian = LITTLE /\ T = "H"
              /\ v = FromInt(2) /\ ret.pre = 1 /\ calls = 2 /\ mbuf[1] = 1)
             => mbuf = <<1, 2, 0>>

C9_Witness ==
  /\ ret.obj = "memory" /\ mendian = LITTLE /\ ret.op = "write_u16"
  /\ ret.pre = 1 /\ calls = 2 /\ mbuf = <<1, 2, 0>> /\ mpos = 3

\* C10: a write call that raises leaves the bytes and the cursor of its sink
\* as they were before the call.
C10_FailedWriteChangesNothing ==
  [][(ret'.obj \in {"memory", "writer"} /\ ret'.op \in WriteOps
      /\ ret'.err # "none")
     => /\ mbuf' = mbuf /\ mpos' = mpos
        /\ wbuf' = wbuf /\ wpos' = wpos /\ wfile' = wfile]_call

====
